---- MODULE Spec2Model ----
(***************************************************************************)
(* Model of rpy2/robjects/__init__.py: the class-name resolver             *)
(* (NameClassMap), its scoped override (NameClassMapContext), the inbound  *)
(* promotion of R vectors (sexpvector_to_ro) and the registrations made on *)
(* default_converter at module initialisation.                             *)
(***************************************************************************)
EXTENDS Integers, Sequences, FiniteSets, TLC

VARIABLES
    default,        \* NameClassMap._default of _rs4_map
    nameclassmap,   \* NameClassMap._map of _rs4_map: name -> class, None when the key is absent
    ctx,            \* a NameClassMapContext instance the caller holds on to: _d, _keep
    active,         \* the with-blocks currently open on _rs4_map, innermost last
    withs,          \* with statements executed on instances built in the statement itself
    ops,            \* writes made to _rs4_map by callers since the first override was built
    last,           \* outcome of the most recent operation on _rs4_map
    found,          \* outcome of the most recent NameClassMap.find / find_key call
    promoted,       \* outcome of the most recent sexpvector_to_ro call
    pc,             \* module-level statements of __init__.py executed so far
    py2rpy,         \* default_converter.py2rpy: type -> handler, None when not registered
    rpy2py,         \* default_converter.rpy2py: type -> handler, None when not registered
    converter,      \* conversion.converter, the active converter
    regs,           \* registrations made by callers after the module was imported
    lastreg,        \* per table and type, the handler given by the latest register call
    conv,           \* outcome of the most recent conversion call
    vec,            \* outcome of the most recent sequence_to_vector call
    econv,          \* outcome of the most recent conversion made through the active converter
    formula         \* a Formula: its .Environment slot, the most recent setenvironment call

mapvars == <<default, nameclassmap, ctx, active, withs, ops, last>>

convvars == <<pc, py2rpy, rpy2py, converter, regs, lastreg, conv>>

\* State of the functions that use neither the resolver nor the converter.
extvars == <<vec, econv, formula>>

vars == <<default, nameclassmap, ctx, active, withs, ops, last, found, promoted,
          pc, py2rpy, rpy2py, converter, regs, lastreg, conv, vec, econv,
          formula>>

(***************************************************************************)
(* Bounds                                                                  *)
(***************************************************************************)
MaxEnters == 2      \* __enter__ calls on the NameClassMapContext instance that is kept
MaxDepth == 2       \* with-blocks open at the same time
MaxWiths == 3       \* with statements executed on instances built in the statement itself
MaxOps == 1         \* caller writes to _rs4_map once overrides are in use
MaxKeys == 2        \* longest candidate sequence given to find / find_key
MaxDimLen == 3      \* longest dim attribute of an R vector
MaxRegs == 1        \* registrations made by callers after the module was imported
MaxSeqLen == 3      \* longest sequence given to sequence_to_vector
MaxListLen == 2     \* longest list given to the py2rpy handlers of list and TaggedList
MaxSets == 3        \* calls of setenvironment on the Formula

None == "None"

\* R class names used as keys; the empty string is a str like any other.
Names == {"", "A"}

\* Python classes that may be offered as wrapper types.
Classes == {"RObject", "RS4", "X"}

\* class X(RS4), class RS4(RObject): the pairs <<sub, super>>.
SubclassPairs ==
    {<<c, c>> : c \in Classes}
        \cup {<<"X", "RS4">>, <<"RS4", "RObject">>, <<"X", "RObject">>}

issubclass(value, cls) == <<value, cls>> \in SubclassPairs

(***************************************************************************)
(* NameClassMap                                                            *)
(***************************************************************************)
EmptyMap == [k \in Names |-> None]

\* NameClassMap.__contains__
contains(m, key) == key \in DOMAIN m /\ m[key] # None

\* NameClassMap.__getitem__ (called only under contains in this file)
getitem(m, key) == m[key]

delitem_keeps(m, key) == m

\* NameClassMap.__delitem__ on a present key
delitem(m, key) == [m EXCEPT ![key] = None]

setitem_ok_same(d, value) == value = d

setitem_ok_any(d, value) == TRUE

\* NameClassMap.__setitem__: the assertion
setitem_ok(d, value) == issubclass(value, d)

\* NameClassMap.__setitem__: the assignment
setitem(m, key, value) == [m EXCEPT ![key] = value]

RECURSIVE find_key_from(_, _, _)
find_key_from(m, keys, i) ==
    IF i > Len(keys) THEN None
    ELSE IF contains(m, keys[i]) THEN keys[i]
    ELSE find_key_from(m, keys, i + 1)

\* NameClassMap.find_key: None when no key of keys is in the map.  The name
\* "None" is not in Names, so it cannot be confused with a key.
find_key(m, keys) == find_key_from(m, keys, 1)

\* Python truth value of the str-or-None returned by find_key.
truthy(k) == k # None /\ k # ""

\* NameClassMap.find
find(m, d, keys) ==
    LET k == find_key(m, keys)
    IN  IF truthy(k) THEN m[k] ELSE d

(***************************************************************************)
(* NameClassMapContext                                                     *)
(***************************************************************************)
snapshot_forgets(m, k) == <<k, FALSE, None>>

\* The (k, restore, orig_v) triple __enter__ appends to _keep.
snapshot(m, k) ==
    IF contains(m, k) THEN <<k, TRUE, getitem(m, k)>> ELSE <<k, FALSE, None>>

\* NameClassMapContext.__enter__: the loop over _d.items(), from item i on.
RECURSIVE enter_from(_, _, _, _, _)
enter_from(m, d, kp, items, i) ==
    IF i > Len(items) THEN [map |-> m, keep |-> kp, raised |-> "none"]
    ELSE LET k == items[i][1]
             v == items[i][2]
             kp2 == Append(kp, snapshot(m, k))
         IN  IF ~setitem_ok(d, v)
             THEN [map |-> m, keep |-> kp2, raised |-> "AssertionError"]
             ELSE enter_from(setitem(m, k, v), d, kp2, items, i + 1)

\* NameClassMapContext.__exit__: the loop over _keep, from entry i on.
RECURSIVE exit_from(_, _, _, _)
exit_from(m, d, kp, i) ==
    IF i > Len(kp) THEN [map |-> m, raised |-> "none"]
    ELSE LET k == kp[i][1]
             restore == kp[i][2]
             orig_v == kp[i][3]
         IN  IF restore
             THEN IF ~setitem_ok(d, orig_v)
                  THEN [map |-> m, raised |-> "AssertionError"]
                  ELSE exit_from(setitem(m, k, orig_v), d, kp, i + 1)
             ELSE IF ~contains(m, k)
                  THEN [map |-> m, raised |-> "KeyError"]
                  ELSE exit_from(delitem(m, k), d, kp, i + 1)

\* The dicts that may be given as _d: items in insertion order, keys distinct.
Items == Names \X Classes

Mappings ==
    UNION {{s \in [1..n -> Items] :
                \A i, j \in 1..n : i # j => s[i][1] # s[j][1]} : n \in 0..Cardinality(Names)}

\* The dicts whose classes all derive from RS4.
RS4Mappings ==
    {s \in Mappings : \A i \in 1..Len(s) : issubclass(s[i][2], "RS4")}

DictKeys(items) == {items[i][1] : i \in 1..Len(items)}

(***************************************************************************)
(* State of the resolver _rs4_map and of its overrides                     *)
(***************************************************************************)
NoCtx == [made |-> FALSE, d |-> <<>>, keep |-> <<>>, enters |-> 0]

\* What `last` records for an operation that is not an __exit__.
Outcome(op, raised, before) ==
    [op |-> op, raised |-> raised, exc |-> None, entry |-> before,
     fresh |-> FALSE, quiet |-> FALSE, clean |-> FALSE, shared |-> FALSE]

\* _rs4_map = NameClassMap(RS4); no NameClassMapContext exists yet.
InitMap ==
    /\ default = "RS4"
    /\ nameclassmap = EmptyMap
    /\ ctx = NoCtx
    /\ active = <<>>
    /\ withs = 0
    /\ ops = 0
    /\ last = Outcome("init", "none", EmptyMap)

\* Only registrations and removals have been made so far.
Setup ==
    /\ ops = 0
    /\ ~ctx.made
    /\ active = <<>>
    /\ last.op \in {"init", "register", "remove"}

\* Callers write to _rs4_map freely before the first override is built, and up
\* to MaxOps times while they hold on to an override instance.
MayWrite == Setup \/ (ctx.made /\ ops < MaxOps)

\* The open with-blocks after the resolver was written by something that is
\* not a properly nested override.
Disturbed(stack) ==
    [i \in 1..Len(stack) |-> [stack[i] EXCEPT !.quiet = FALSE, !.clean = FALSE]]

\* The open with-blocks after a further with-block was opened on mapping d
\* by an instance that had (fresh) or had not an empty _keep; shared: the
\* inner mapping gives another class to a name that the enclosing override
\* itself changed from the class registered at its entry.
Enclosing(stack, d, fresh) ==
    [i \in 1..Len(stack) |->
        [stack[i] EXCEPT
            !.quiet = FALSE,
            !.clean = @ /\ fresh,
            !.shared = @ \/ (\E a \in 1..Len(stack[i].d), b \in 1..Len(d) :
                                 /\ stack[i].d[a][1] = d[b][1]
                                 /\ stack[i].d[a][2] # d[b][2]
                                 /\ contains(stack[i].entry, d[b][1])
                                 /\ getitem(stack[i].entry, d[b][1]) # stack[i].d[a][2])]]

\* _rs4_map[k] = v
Register(k, v) ==
    /\ MayWrite
    /\ IF setitem_ok(default, v)
       THEN /\ nameclassmap' = setitem(nameclassmap, k, v)
            /\ active' = Disturbed(active)
            /\ last' = Outcome("register", "none", nameclassmap)
       ELSE /\ last' = Outcome("register", "AssertionError", nameclassmap)
            /\ UNCHANGED <<nameclassmap, active>>
    /\ ops' = IF Setup THEN 0 ELSE ops + 1
    /\ UNCHANGED <<default, ctx, withs>>
    /\ UNCHANGED <<found, promoted>>
    /\ UNCHANGED extvars
    /\ UNCHANGED convvars

\* del _rs4_map[k]
Remove(k) ==
    /\ MayWrite
    /\ IF contains(nameclassmap, k)
       THEN /\ nameclassmap' = delitem(nameclassmap, k)
            /\ active' = Disturbed(active)
            /\ last' = Outcome("remove", "none", nameclassmap)
       ELSE /\ last' = Outcome("remove", "KeyError", nameclassmap)
            /\ UNCHANGED <<nameclassmap, active>>
    /\ ops' = IF Setup THEN 0 ELSE ops + 1
    /\ UNCHANGED <<default, ctx, withs>>
    /\ UNCHANGED <<found, promoted>>
    /\ UNCHANGED extvars
    /\ UNCHANGED convvars

\* ctx = rs4map_context(items): NameClassMapContext.__init__
NewContext(items) ==
    /\ ~ctx.made
    /\ ctx' = [made |-> TRUE, d |-> items, keep |-> <<>>, enters |-> 0]
    /\ last' = Outcome("new", "none", nameclassmap)
    /\ UNCHANGED <<default, nameclassmap, active, withs, ops>>
    /\ UNCHANGED <<found, promoted>>
    /\ UNCHANGED extvars
    /\ UNCHANGED convvars

\* `with ctx:` reaches ctx.__enter__().  When __enter__ raises, the block is
\* not entered and __exit__ is not called.
EnterKept ==
    /\ ctx.made
    /\ ctx.enters < MaxEnters
    /\ Len(active) < MaxDepth
    /\ \A i \in 1..Len(active) : ~active[i].kept
    /\ LET r == enter_from(nameclassmap, default, ctx.keep, ctx.d, 1)
           fresh == ctx.keep = <<>>
           opened == [kept |-> TRUE, d |-> ctx.d, keep |-> <<>>,
                      entry |-> nameclassmap, fresh |-> fresh,
                      quiet |-> TRUE, clean |-> fresh, shared |-> FALSE]
       IN  /\ nameclassmap' = r.map
           /\ ctx' = [ctx EXCEPT !.keep = r.keep, !.enters = @ + 1]
           /\ active' = IF r.raised = "none"
                        THEN Append(Enclosing(active, ctx.d, fresh), opened)
                        ELSE Disturbed(active)
           /\ last' = Outcome("enter", r.raised, nameclassmap)
    /\ UNCHANGED <<default, withs, ops>>
    /\ UNCHANGED <<found, promoted>>
    /\ UNCHANGED extvars
    /\ UNCHANGED convvars

\* `with rs4map_context(items):` builds an instance and reaches its
\* __enter__; the instance is dropped when the with statement is left.
With(items) ==
    /\ Len(active) < MaxDepth
    /\ withs < MaxWiths
    /\ LET r == enter_from(nameclassmap, default, <<>>, items, 1)
           opened == [kept |-> FALSE, d |-> items, keep |-> r.keep,
                      entry |-> nameclassmap, fresh |-> TRUE,
                      quiet |-> TRUE, clean |-> TRUE, shared |-> FALSE]
       IN  /\ nameclassmap' = r.map
           /\ active' = IF r.raised = "none"
                        THEN Append(Enclosing(active, items, TRUE), opened)
                        ELSE Disturbed(active)
           /\ last' = Outcome("enter", r.raised, nameclassmap)
    /\ withs' = withs + 1
    /\ UNCHANGED <<default, ctx, ops>>
    /\ UNCHANGED <<found, promoted>>
    /\ UNCHANGED extvars
    /\ UNCHANGED convvars

\* The i-th open with-block ends, normally (exc = None) or because its body
\* raised (exc = "Error"): __exit__(exc_type, exc_val, exc_tb) of its
\* instance.  __exit__ returns False, so the body's exception propagates;
\* _keep is left as it is.
Exit(i, exc) ==
    /\ i \in 1..Len(active)
    /\ LET e == active[i]
           kp == IF e.kept THEN ctx.keep ELSE e.keep
           r == exit_from(nameclassmap, default, kp, 1)
           lifo == i = Len(active)
           good == lifo /\ e.clean /\ r.raised = "none"
           rest == SubSeq(active, 1, i - 1) \o SubSeq(active, i + 1, Len(active))
       IN  /\ nameclassmap' = r.map
           /\ active' = [j \in 1..Len(rest) |->
                            [rest[j] EXCEPT !.quiet = FALSE, !.clean = @ /\ good]]
           /\ last' = [op |-> "exit", raised |-> r.raised, exc |-> exc,
                       entry |-> e.entry, fresh |-> e.fresh, quiet |-> e.quiet,
                       clean |-> e.clean /\ lifo, shared |-> e.shared]
    /\ UNCHANGED <<default, ctx, withs, ops>>
    /\ UNCHANGED <<found, promoted>>
    /\ UNCHANGED extvars
    /\ UNCHANGED convvars

(***************************************************************************)
(* Promotion of R vectors: sexpvector_to_ro                                *)
(***************************************************************************)
\* rinterface.RTYPES of the SexpVector classes, and of some that are not.
VectorTypes ==
    {"INTSXP", "REALSXP", "LGLSXP", "STRSXP", "VECSXP", "LISTSXP", "LANGSXP",
     "CPLXSXP", "RAWSXP", "EXPRSXP"}

OtherTypes == {"CLOSXP", "ENVSXP", "S4SXP"}

\* R class names the promotion looks for in obj.rclass.
RClasses == {"data.frame", "factor", "POSIXct", "formula"}

\* Outcome of obj.do_slot("dim"): the attribute's value, a LookupError when
\* the object has no such attribute, or another failure.
Dims ==
    {[slot |-> "absent", value |-> <<>>], [slot |-> "error", value |-> <<>>]}
        \cup {[slot |-> "ok", value |-> [i \in 1..n |-> 2]] : n \in 0..MaxDimLen}

\* The R objects given to sexpvector_to_ro.
TypedValues == [typeof : VectorTypes \cup OtherTypes, rclass : SUBSET RClasses, dim : Dims]

\* isinstance(obj, rinterface.SexpVector)
isSexpVector(obj) == obj.typeof \in VectorTypes

\* vectors.POSIXct.isrinstance(obj)
POSIXct_isrinstance(obj) == "POSIXct" \in obj.rclass

vma_except_lookup_only(obj, vector_cls, matrix_cls, array_cls) ==
    IF obj.dim.slot = "ok"
    THEN IF Len(obj.dim.value) = 2 THEN matrix_cls ELSE array_cls
    ELSE IF obj.dim.slot = "absent" THEN vector_cls ELSE None

vma_matrix_when_dim(obj, vector_cls, matrix_cls, array_cls) ==
    IF obj.dim.slot = "ok" THEN matrix_cls ELSE vector_cls

\* _vector_matrix_array: any exception raised under the try gives vector_cls.
_vector_matrix_array(obj, vector_cls, matrix_cls, array_cls) ==
    IF obj.dim.slot = "ok"
    THEN IF Len(obj.dim.value) = 2 THEN matrix_cls ELSE array_cls
    ELSE vector_cls

intsxp_cls_by_dim(obj) ==
    _vector_matrix_array(obj, "IntVector", "IntMatrix", "IntArray")

\* sexpvector_to_ro: the INTSXP branch
intsxp_cls(obj) ==
    IF "factor" \in obj.rclass
    THEN "FactorVector"
    ELSE _vector_matrix_array(obj, "IntVector", "IntMatrix", "IntArray")

\* sexpvector_to_ro: the class chosen for a SexpVector, None in the last else.
sexpvector_cls(obj) ==
    IF "data.frame" \in obj.rclass THEN "DataFrame"
    ELSE IF obj.typeof = "INTSXP" THEN intsxp_cls(obj)
    ELSE IF obj.typeof = "REALSXP"
         THEN IF POSIXct_isrinstance(obj)
              THEN "POSIXct"
              ELSE _vector_matrix_array(obj, "FloatVector", "FloatMatrix", "FloatArray")
    ELSE IF obj.typeof = "LGLSXP"
         THEN _vector_matrix_array(obj, "BoolVector", "BoolMatrix", "BoolArray")
    ELSE IF obj.typeof = "STRSXP"
         THEN _vector_matrix_array(obj, "StrVector", "StrMatrix", "StrArray")
    ELSE IF obj.typeof = "VECSXP" THEN "ListVector"
    ELSE IF obj.typeof = "LISTSXP" THEN "PairlistVector"
    ELSE IF obj.typeof = "LANGSXP"
         THEN IF "formula" \in obj.rclass THEN "Formula" ELSE "LangVector"
    ELSE IF obj.typeof = "CPLXSXP"
         THEN _vector_matrix_array(obj, "ComplexVector", "ComplexMatrix", "ComplexArray")
    ELSE IF obj.typeof = "RAWSXP"
         THEN _vector_matrix_array(obj, "ByteVector", "ByteMatrix", "ByteArray")
    ELSE None

sexpvector_to_ro_unchecked(obj) ==
    [raised |-> "none", cls |-> sexpvector_cls(obj), returned |-> TRUE]

\* sexpvector_to_ro: raised, the wrapper class (None when obj is returned as
\* it is) and the object the result is or wraps.
sexpvector_to_ro(obj) ==
    IF ~isSexpVector(obj)
    THEN [raised |-> "ValueError", cls |-> None, returned |-> FALSE]
    ELSE [raised |-> "none", cls |-> sexpvector_cls(obj), returned |-> TRUE]

\* obj is about to be given to sexpvector_to_ro.
NotPromoted(obj) ==
    [called |-> FALSE, obj |-> obj, raised |-> "none", cls |-> None, returned |-> FALSE]

NoPromotion ==
    NotPromoted([typeof |-> "INTSXP", rclass |-> {},
                 dim |-> [slot |-> "absent", value |-> <<>>]])

\* sexpvector_to_ro(promoted.obj)
Promote ==
    /\ ~promoted.called
    /\ LET r == sexpvector_to_ro(promoted.obj)
       IN  promoted' = [called |-> TRUE, obj |-> promoted.obj, raised |-> r.raised,
                        cls |-> r.cls, returned |-> r.returned]
    /\ UNCHANGED mapvars
    /\ UNCHANGED found
    /\ UNCHANGED convvars
    /\ UNCHANGED extvars

(***************************************************************************)
(* default_converter and the conversions                                   *)
(***************************************************************************)
\* Python types of the values converted, with the classes they derive from.
HostScalars == {"bool", "int", "float", "complex", "str", "bytes"}

SexpTypes ==
    {"SexpVector", "SexpClosure", "SexpEnvironment", "SexpS4", "SexpExtPtr", "NULLType"}

Types ==
    HostScalars \cup SexpTypes
        \cup {"object", "Sexp", "RObject", "list", "TaggedList", "array",
              "FunctionType", "_MissingArgType", "dict", "CallerWrapper"}

\* type(obj).__mro__
mro(T) ==
    IF T = "object" THEN <<"object">>
    ELSE IF T = "bool" THEN <<"bool", "int", "object">>
    ELSE IF T = "TaggedList" THEN <<"TaggedList", "list", "object">>
    ELSE IF T \in SexpTypes THEN <<T, "Sexp", "object">>
    ELSE <<T, "object">>

EmptyTable == [T \in Types |-> None]

register_keeps_first(tbl, T, h) ==
    IF tbl[T] = None THEN [tbl EXCEPT ![T] = h] ELSE tbl

\* <table>.register(T, h): the handler for T is h from now on.
register(tbl, T, h) == [tbl EXCEPT ![T] = h]

\* The handler the table gives for a value of type T: that of the first class
\* of the value's type, in method resolution order, that is registered.
dispatch(tbl, T) ==
    LET hits == {i \in 1..Len(mro(T)) : tbl[mro(T)[i]] # None}
    IN  IF hits = {}
        THEN [at |-> None, handler |-> None]
        ELSE LET i == CHOOSE i \in hits : \A j \in hits : i <= j
             IN  [at |-> mro(T)[i], handler |-> tbl[mro(T)[i]]]

\* A converted value: its Python type, its content, and for a wrapper the
\* type of the object it was built around.
Value(T, v) == [type |-> T, val |-> v, inner |-> None]

\* cls(obj) for a wrapper class cls
Wrap(cls, obj) == [type |-> cls, val |-> obj.val, inner |-> obj.type]

Values ==
    {Value("bool", "True"), Value("bool", "False"), Value("int", "0"),
     Value("int", "1"), Value("float", "1.5"), Value("complex", "1j"),
     Value("str", ""), Value("str", "s"), Value("bytes", "b"),
     Value("dict", "{}"), Value("Sexp", "symbol"), Value("SexpExtPtr", "ptr"),
     Value("NULLType", "NULL"), Value("SexpClosure", "function"),
     Value("SexpEnvironment", "env"), Value("RObject", "robj")}

_rpy2py_robject(obj) == obj

_py2rpy_missingargtype(obj) == obj

py2rpy_bool_as_int(obj) == Value("int", IF obj.val = "True" THEN "1" ELSE "0")

_py2rpy_bool(obj) == obj

_py2rpy_int(obj) == obj

_py2rpy_float(obj) == obj

_py2rpy_bytes(obj) == obj

_py2rpy_str(obj) == obj

_rpy2py_sexpclosure(obj) == Wrap("SignatureTranslatedFunction", obj)

_rpy2py_sexpenvironment(obj) == Wrap("Environment", obj)

_rpy2py_sexpextptr(obj) == obj

_rpy2py_object(obj) == Wrap("RObject", obj)

_rpy2py_null(obj) == obj

_py2rpy_robject(obj) == Wrap("Sexp", obj)

_py2rpy_sexp(obj) == obj

\* the lambda registered for int after _py2rpy_int
py2rpy_int_lambda(obj) == obj

_py2rpy_complex(obj) == obj

\* the function named _ that is registered for object after _rpy2py_object
rpy2py_object_last(obj) == obj

\* Handlers that callers register: one returns its argument, one wraps it.
caller_same(obj) == obj

caller_wrap(obj) == Wrap("CallerWrapper", obj)

CallerHandlers == {"caller_same", "caller_wrap"}

\* The handlers whose call is modelled, by the name they are registered under.
call(h, obj) ==
    CASE h = "_rpy2py_robject" -> _rpy2py_robject(obj)
      [] h = "_py2rpy_missingargtype" -> _py2rpy_missingargtype(obj)
      [] h = "_py2rpy_bool" -> _py2rpy_bool(obj)
      [] h = "_py2rpy_int" -> _py2rpy_int(obj)
      [] h = "_py2rpy_float" -> _py2rpy_float(obj)
      [] h = "_py2rpy_bytes" -> _py2rpy_bytes(obj)
      [] h = "_py2rpy_str" -> _py2rpy_str(obj)
      [] h = "_rpy2py_sexpclosure" -> _rpy2py_sexpclosure(obj)
      [] h = "_rpy2py_sexpenvironment" -> _rpy2py_sexpenvironment(obj)
      [] h = "_rpy2py_sexpextptr" -> _rpy2py_sexpextptr(obj)
      [] h = "_rpy2py_object" -> _rpy2py_object(obj)
      [] h = "_rpy2py_null" -> _rpy2py_null(obj)
      [] h = "_py2rpy_robject" -> _py2rpy_robject(obj)
      [] h = "_py2rpy_sexp" -> _py2rpy_sexp(obj)
      [] h = "<lambda>" -> py2rpy_int_lambda(obj)
      [] h = "_py2rpy_complex" -> _py2rpy_complex(obj)
      [] h = "_" -> rpy2py_object_last(obj)
      [] h = "caller_same" -> caller_same(obj)
      [] h = "caller_wrap" -> caller_wrap(obj)

Reg(tbl, T, h) == [table |-> tbl, type |-> T, handler |-> h]

\* The register calls made on default_converter while the module is imported,
\* in source order.
Registrations ==
    << Reg("rpy2py", "RObject", "_rpy2py_robject"),
       Reg("rpy2py", "SexpVector", "sexpvector_to_ro"),
       Reg("py2rpy", "_MissingArgType", "_py2rpy_missingargtype"),
       Reg("py2rpy", "bool", "_py2rpy_bool"),
       Reg("py2rpy", "int", "_py2rpy_int"),
       Reg("py2rpy", "float", "_py2rpy_float"),
       Reg("py2rpy", "bytes", "_py2rpy_bytes"),
       Reg("py2rpy", "str", "_py2rpy_str"),
       Reg("rpy2py", "SexpClosure", "_rpy2py_sexpclosure"),
       Reg("rpy2py", "SexpEnvironment", "_rpy2py_sexpenvironment"),
       Reg("rpy2py", "SexpS4", "_rpy2py_sexps4"),
       Reg("rpy2py", "SexpExtPtr", "_rpy2py_sexpextptr"),
       Reg("rpy2py", "object", "_rpy2py_object"),
       Reg("rpy2py", "NULLType", "_rpy2py_null"),
       Reg("py2rpy", "RObject", "_py2rpy_robject"),
       Reg("py2rpy", "Sexp", "_py2rpy_sexp"),
       Reg("py2rpy", "array", "_py2rpy_array"),
       Reg("py2rpy", "int", "<lambda>"),
       Reg("py2rpy", "list", "_py2rpy_list"),
       Reg("py2rpy", "TaggedList", "_py2rpy_taggedlist"),
       Reg("py2rpy", "complex", "_py2rpy_complex"),
       Reg("py2rpy", "FunctionType", "_function_to_rpy"),
       Reg("rpy2py", "object", "_") >>

NoConv ==
    [op |-> "none", arg |-> Value("object", ""), at |-> None, handler |-> None,
     out |-> Value("object", ""), raised |-> "none"]

\* default_converter = conversion.Converter('base empty converter')
InitConv ==
    /\ pc = 0
    /\ py2rpy = EmptyTable
    /\ rpy2py = EmptyTable
    /\ converter = None
    /\ regs = 0
    /\ lastreg = [py2rpy |-> EmptyTable, rpy2py |-> EmptyTable]
    /\ conv = NoConv

\* The tables after table.register(T, h) on the one named tbl.
Registered(tbl, T, h) ==
    /\ py2rpy' = IF tbl = "py2rpy" THEN register(py2rpy, T, h) ELSE py2rpy
    /\ rpy2py' = IF tbl = "rpy2py" THEN register(rpy2py, T, h) ELSE rpy2py
    /\ lastreg' = [lastreg EXCEPT ![tbl][T] = h]

\* The next register call of the module is executed.
ModuleRegister ==
    /\ pc < Len(Registrations)
    /\ LET r == Registrations[pc + 1]
       IN  Registered(r.table, r.type, r.handler)
    /\ pc' = pc + 1
    /\ UNCHANGED <<converter, regs, conv>>
    /\ UNCHANGED mapvars
    /\ UNCHANGED <<found, promoted>>
    /\ UNCHANGED extvars

\* conversion.set_conversion(default_converter)
SetConversion ==
    /\ pc = Len(Registrations)
    /\ converter = None
    /\ converter' = "default_converter"
    /\ UNCHANGED <<pc, py2rpy, rpy2py, regs, lastreg, conv>>
    /\ UNCHANGED mapvars
    /\ UNCHANGED <<found, promoted>>
    /\ UNCHANGED extvars

\* A caller registers handler h for T in a table of default_converter.
CallerRegister(tbl, T, h) ==
    /\ converter = "default_converter"
    /\ regs < MaxRegs
    /\ Registered(tbl, T, h)
    /\ regs' = regs + 1
    /\ UNCHANGED <<pc, converter, conv>>
    /\ UNCHANGED mapvars
    /\ UNCHANGED <<found, promoted>>
    /\ UNCHANGED extvars

\* The call of the handler a table gives for obj.
converted(tbl, obj) ==
    LET d == dispatch(tbl, obj.type)
    IN  IF d.handler = None
        THEN [at |-> None, handler |-> None, out |-> obj, raised |-> "NotImplementedError"]
        ELSE [at |-> d.at, handler |-> d.handler, out |-> call(d.handler, obj),
              raised |-> "none"]

\* conversion.py2rpy(obj)
Py2Rpy(obj) ==
    /\ converter = "default_converter"
    /\ LET r == converted(py2rpy, obj)
       IN  conv' = [op |-> "py2rpy", arg |-> obj, at |-> r.at, handler |-> r.handler,
                    out |-> r.out, raised |-> r.raised]
    /\ UNCHANGED <<pc, py2rpy, rpy2py, converter, regs, lastreg>>
    /\ UNCHANGED mapvars
    /\ UNCHANGED <<found, promoted>>
    /\ UNCHANGED extvars

\* conversion.rpy2py(obj)
Rpy2Py(obj) ==
    /\ converter = "default_converter"
    /\ LET r == converted(rpy2py, obj)
       IN  conv' = [op |-> "rpy2py", arg |-> obj, at |-> r.at, handler |-> r.handler,
                    out |-> r.out, raised |-> r.raised]
    /\ UNCHANGED <<pc, py2rpy, rpy2py, converter, regs, lastreg>>
    /\ UNCHANGED mapvars
    /\ UNCHANGED <<found, promoted>>
    /\ UNCHANGED extvars

\* conversion.rpy2py(conversion.py2rpy(obj))
RoundTrip(obj) ==
    /\ converter = "default_converter"
    /\ LET there == converted(py2rpy, obj)
           back == converted(rpy2py, there.out)
       IN  conv' = IF there.raised # "none"
                   THEN [op |-> "roundtrip", arg |-> obj, at |-> there.at,
                         handler |-> there.handler, out |-> obj, raised |-> there.raised]
                   ELSE [op |-> "roundtrip", arg |-> obj, at |-> back.at,
                         handler |-> back.handler, out |-> back.out,
                         raised |-> back.raised]
    /\ UNCHANGED <<pc, py2rpy, rpy2py, converter, regs, lastreg>>
    /\ UNCHANGED mapvars
    /\ UNCHANGED <<found, promoted>>
    /\ UNCHANGED extvars

(***************************************************************************)
(* sequence_to_vector                                                      *)
(***************************************************************************)
\* TYPEORDER: type -> (order, vector class)
TYPEORDER ==
    [bool |-> <<0, "BoolVector">>,
     int |-> <<1, "IntVector">>,
     float |-> <<2, "FloatVector">>,
     complex |-> <<3, "ComplexVector">>,
     str |-> <<4, "StrVector">>]

\* type(elt) of the elements given: the keys of TYPEORDER and two other types.
ElemTypes == DOMAIN TYPEORDER \cup {"bytes", "NoneType"}

\* The sequences given to sequence_to_vector, each element by its type.
Lists == UNION {[1..n -> ElemTypes] : n \in 0..MaxSeqLen}

raises_order_always(cls, curr_typeorder) == TRUE

\* sequence_to_vector: TYPEORDER[cls][0] > curr_typeorder
raises_order(cls, curr_typeorder) == TYPEORDER[cls][1] > curr_typeorder

\* sequence_to_vector: the loop, from element i on (i counted from 1); idx is
\* the loop variable i of the code: <<>> for None, before the first turn, and
\* <<n>> for the integer n.
RECURSIVE stv_from(_, _, _, _, _)
stv_from(lst, i, idx, curr_typeorder, curr_type) ==
    IF i > Len(lst)
    THEN [raised |-> "none", i |-> idx, curr_type |-> curr_type]
    ELSE LET cls == lst[i]
         IN  IF cls \in DOMAIN TYPEORDER
             THEN IF raises_order(cls, curr_typeorder)
                  THEN stv_from(lst, i + 1, <<i - 1>>, TYPEORDER[cls][1], TYPEORDER[cls][2])
                  ELSE stv_from(lst, i + 1, <<i - 1>>, curr_typeorder, curr_type)
             ELSE [raised |-> "ValueError", i |-> <<i - 1>>, curr_type |-> curr_type]

\* curr_type(lst): the vector class called with the sequence
vector_of(cls, lst) == [cls |-> cls, elts |-> lst]

\* No vector was built.
NoVector == [cls |-> None, elts |-> <<>>]

stv_empty_unchecked(lst) ==
    LET r == stv_from(lst, 1, <<>>, -1, None)
    IN  IF r.raised # "none"
        THEN [raised |-> r.raised, at |-> r.i, res |-> NoVector]
        ELSE [raised |-> "none", at |-> <<>>,
              res |-> vector_of(IF r.curr_type = None THEN "BoolVector" ELSE r.curr_type, lst)]

\* sequence_to_vector
sequence_to_vector(lst) ==
    LET r == stv_from(lst, 1, <<>>, -1, None)
    IN  IF r.raised # "none"
        THEN [raised |-> r.raised, at |-> r.i, res |-> NoVector]
        ELSE IF r.i = <<>>
             THEN [raised |-> "ValueError", at |-> <<>>, res |-> NoVector]
             ELSE [raised |-> "none", at |-> <<>>, res |-> vector_of(r.curr_type, lst)]

(***************************************************************************)
(* Formula.setenvironment                                                  *)
(***************************************************************************)
\* The values given to setenvironment: environments of rinterface, an
\* Environment of robjects (a subclass of SexpEnvironment), and others.
EnvArgs ==
    {Value("SexpEnvironment", "globalenv"), Value("SexpEnvironment", "baseenv"),
     Value("SexpEnvironment", "env"), Value("SexpEnvironment", "emptyenv"),
     Value("Environment", "env"),
     Value("NoneType", "None"), Value("str", "globalenv"), Value("int", "1"),
     Value("Sexp", "symbol"), Value("SexpClosure", "function"), Value("dict", "{}")}

\* isinstance(val, rinterface.SexpEnvironment)
isSexpEnvironment(val) == val.type \in {"SexpEnvironment", "Environment"}

setenvironment_unchecked(env, val) == [raised |-> "none", env |-> val]

\* Formula.setenvironment on a Formula whose .Environment slot holds env
setenvironment(env, val) ==
    IF ~isSexpEnvironment(val)
    THEN [raised |-> "TypeError", env |-> env]
    ELSE [raised |-> "none", env |-> val]

\* Formula(formula): environment=_globalenv
NewFormula ==
    [env |-> Value("SexpEnvironment", "globalenv"), sets |-> 0,
     val |-> Value("NoneType", "None"), raised |-> "none",
     before |-> Value("SexpEnvironment", "globalenv")]

\* formula.setenvironment(val), also reached by formula.environment = val
SetEnvironment(val) ==
    /\ formula.sets < MaxSets
    /\ LET r == setenvironment(formula.env, val)
       IN  formula' = [env |-> r.env, sets |-> formula.sets + 1, val |-> val,
                       raised |-> r.raised, before |-> formula.env]
    /\ UNCHANGED mapvars
    /\ UNCHANGED <<found, promoted>>
    /\ UNCHANGED convvars
    /\ UNCHANGED <<vec, econv>>

\* No conversion was made through the active converter yet.
NoEntry == [op |-> "none", active |-> None, arg |-> <<>>, out |-> <<>>, raised |-> "none"]

\* lst is about to be given to sequence_to_vector.
NotBuilt(lst) ==
    [called |-> FALSE, lst |-> lst, raised |-> "none", at |-> <<>>, res |-> NoVector]

InitExt ==
    /\ vec = NotBuilt(<<>>)
    /\ econv = NoEntry
    /\ formula = NewFormula

\* sequence_to_vector(vec.lst)
SequenceToVector ==
    /\ ~vec.called
    /\ LET r == sequence_to_vector(vec.lst)
       IN  vec' = [called |-> TRUE, lst |-> vec.lst, raised |-> r.raised,
                   at |-> r.at, res |-> r.res]
    /\ UNCHANGED mapvars
    /\ UNCHANGED <<found, promoted>>
    /\ UNCHANGED convvars
    /\ UNCHANGED <<econv, formula>>

NoFind == [called |-> FALSE, map |-> EmptyMap, keys |-> <<>>, key |-> None, cls |-> None]

\* Names that may be looked up: the keys of the model and one that is never a key.
CandNames == Names \cup {"B"}

CandSeqs == UNION {[1..n -> CandNames] : n \in 0..MaxKeys}

\* _rs4_map.find_key(keys) and _rs4_map.find(keys) on the same keys
Find(keys) ==
    /\ found' = [called |-> TRUE, map |-> nameclassmap, keys |-> keys,
                 key |-> find_key(nameclassmap, keys),
                 cls |-> find(nameclassmap, default, keys)]
    /\ UNCHANGED mapvars
    /\ UNCHANGED promoted
    /\ UNCHANGED convvars
    /\ UNCHANGED extvars

Init ==
    /\ InitMap
    /\ found = NoFind
    /\ promoted = NoPromotion
    /\ InitConv
    /\ InitExt

\* Overrides built in the with statement itself, nested up to MaxDepth.
NextScope ==
    \/ \E k \in Names, v \in Classes : Register(k, v)
    \/ \E k \in Names : Remove(k)
    \/ \E items \in RS4Mappings : With(items)
    \/ \E i \in 1..MaxDepth, exc \in {None, "Error"} : Exit(i, exc)

SpecScope == Init /\ [][NextScope]_vars

\* One override instance that is kept and entered again.
NextKept ==
    \/ \E k \in Names, v \in Classes : Register(k, v)
    \/ \E k \in Names : Remove(k)
    \/ \E items \in Mappings : NewContext(items)
    \/ EnterKept
    \/ \E exc \in {None, "Error"} : Exit(1, exc)

SpecKept == Init /\ [][NextKept]_vars

\* Lookups in a resolver that is filled by registrations and removals.
NextFind ==
    \/ \E k \in Names, v \in Classes : Register(k, v)
    \/ \E k \in Names : Remove(k)
    \/ \E keys \in CandSeqs : Find(keys)

SpecFind == Init /\ [][NextFind]_vars

\* An R object of any type, class vector and dim attribute is promoted.
InitPromote ==
    /\ InitMap
    /\ found = NoFind
    /\ promoted \in {NotPromoted(obj) : obj \in TypedValues}
    /\ InitConv
    /\ InitExt

NextPromote == Promote

SpecPromote == InitPromote /\ [][NextPromote]_vars

\* Types for which callers register handlers.
CallerTypes == {"int", "object"}

\* The import of the module, then conversions and registrations by callers.
NextConvert ==
    \/ ModuleRegister
    \/ SetConversion
    \/ \E tbl \in {"py2rpy", "rpy2py"}, T \in CallerTypes, h \in CallerHandlers :
          CallerRegister(tbl, T, h)
    \/ \E obj \in Values : Py2Rpy(obj)
    \/ \E obj \in Values : Rpy2Py(obj)
    \/ \E obj \in Values : RoundTrip(obj)

SpecConvert == Init /\ [][NextConvert]_vars

(***************************************************************************)
(* Conversion of S4 instances through the resolver                         *)
(***************************************************************************)
\* methods_env['extends'](obj.rclass): the class of the instance followed by
\* the classes it extends, most specific first.
Chains == CandSeqs \ {<<>>}

\* _rpy2py_sexps4, with chain the value of methods_env['extends'](obj.rclass)
_rpy2py_sexps4(m, d, chain, obj) == Wrap(find(m, d, chain), obj)

\* conversion.rpy2py(obj) for an instance obj of SexpS4
ConvertS4(chain) ==
    /\ converter = "default_converter"
    /\ LET obj == Value("SexpS4", "s4")
           r == dispatch(rpy2py, obj.type)
       IN  /\ r.handler = "_rpy2py_sexps4"
           /\ found' = [called |-> TRUE, map |-> nameclassmap, keys |-> chain,
                        key |-> find_key(nameclassmap, chain),
                        cls |-> find(nameclassmap, default, chain)]
           /\ conv' = [op |-> "rpy2py", arg |-> obj, at |-> r.at, handler |-> r.handler,
                       out |-> _rpy2py_sexps4(nameclassmap, default, chain, obj),
                       raised |-> "none"]
    /\ UNCHANGED <<pc, py2rpy, rpy2py, converter, regs, lastreg>>
    /\ UNCHANGED mapvars
    /\ UNCHANGED promoted
    /\ UNCHANGED extvars

\* The import of the module, then S4 instances converted outside and inside
\* one override at a time of the resolver.
NextS4 ==
    \/ ModuleRegister
    \/ SetConversion
    \/ converter = "default_converter" /\ \E k \in Names, v \in Classes : Register(k, v)
    \/ converter = "default_converter" /\ \E k \in Names : Remove(k)
    \/ converter = "default_converter" /\ active = <<>>
          /\ \E items \in RS4Mappings : With(items)
    \/ \E exc \in {None, "Error"} : Exit(1, exc)
    \/ \E chain \in Chains : ConvertS4(chain)

SpecS4 == Init /\ [][NextS4]_vars

\* A sequence of any element types up to MaxSeqLen is given to sequence_to_vector.
InitSequence ==
    /\ InitMap
    /\ found = NoFind
    /\ promoted = NoPromotion
    /\ InitConv
    /\ vec \in {NotBuilt(lst) : lst \in Lists}
    /\ econv = NoEntry
    /\ formula = NewFormula

NextSequence == SequenceToVector

SpecSequence == InitSequence /\ [][NextSequence]_vars

(***************************************************************************)
(* Conversions made through the active converter                           *)
(***************************************************************************)
\* A second converter, built by a caller from default_converter's handler for
\* list, with handlers of its own for int (py2rpy) and for object (rpy2py).
other_py2rpy ==
    register(register(EmptyTable, "list", "_py2rpy_list"), "int", "caller_wrap")

other_rpy2py == register(EmptyTable, "object", "caller_wrap")

Converters == {"default_converter", "other_converter"}

\* conversion.py2rpy and conversion.rpy2py once set_conversion(c) was called
conversion(c) ==
    IF c = "default_converter"
    THEN [py2rpy |-> py2rpy, rpy2py |-> rpy2py]
    ELSE [py2rpy |-> other_py2rpy, rpy2py |-> other_rpy2py]

\* [f(x) for x in obj], f the call of table tbl
each(tbl, obj) == [i \in 1..Len(obj) |-> converted(tbl, obj[i])]

\* The first exception raised in such a comprehension, "none" without one.
first_raised(rs) ==
    IF \A i \in 1..Len(rs) : rs[i].raised = "none"
    THEN "none"
    ELSE rs[CHOOSE i \in 1..Len(rs) :
                /\ rs[i].raised # "none"
                /\ \A j \in 1..(i - 1) : rs[j].raised = "none"].raised

\* What a list handler gives for the elements converted as rs.
list_result(rs) ==
    IF first_raised(rs) = "none"
    THEN [raised |-> "none", out |-> [i \in 1..Len(rs) |-> rs[i].out]]
    ELSE [raised |-> first_raised(rs), out |-> <<>>]

py2rpy_list_by_default(cv, obj) == list_result(each(py2rpy, obj))

\* _py2rpy_list: cv is the value of conversion.py2rpy when the comprehension
\* runs; the elements of the ListVector built are recorded.
_py2rpy_list(cv, obj) == list_result(each(cv, obj))

\* _py2rpy_taggedlist: as _py2rpy_list, and the names are assigned.
_py2rpy_taggedlist(cv, obj) == list_result(each(cv, obj))

\* R.__getitem__ and R.__call__: conversion.rpy2py(res), cv the value of
\* conversion.rpy2py at the call
R_result(cv, res) ==
    LET r == converted(cv, res)
    IN  [raised |-> r.raised, out |-> IF r.raised = "none" THEN <<r.out>> ELSE <<>>]

\* The elements of the lists converted.
ListElems == {Value("int", "1"), Value("str", "s"), Value("dict", "{}")}

PyLists == UNION {[1..n -> ListElems] : n \in 0..MaxListLen}

\* The R objects found by R.__getitem__ or evaluated by R.__call__.
RValues == {v \in Values : v.type \in SexpTypes \cup {"Sexp"}}

\* conversion.set_conversion(c), called by a caller after the import
SetActive(c) ==
    /\ converter # None
    /\ converter' = c
    /\ UNCHANGED <<pc, py2rpy, rpy2py, regs, lastreg, conv>>
    /\ UNCHANGED mapvars
    /\ UNCHANGED <<found, promoted>>
    /\ UNCHANGED extvars

\* conversion.py2rpy(obj) for a list (T = "list") or a TaggedList obj
ConvertList(T, obj) ==
    /\ converter # None
    /\ LET h == dispatch(conversion(converter).py2rpy, T).handler
           r == IF h = "_py2rpy_taggedlist"
                THEN _py2rpy_taggedlist(conversion(converter).py2rpy, obj)
                ELSE _py2rpy_list(conversion(converter).py2rpy, obj)
       IN  /\ h \in {"_py2rpy_list", "_py2rpy_taggedlist"}
           /\ econv' = [op |-> h, active |-> converter, arg |-> obj,
                        out |-> r.out, raised |-> r.raised]
    /\ UNCHANGED convvars
    /\ UNCHANGED mapvars
    /\ UNCHANGED <<found, promoted, vec, formula>>

\* r[item] and r(string): the R object res is converted with conversion.rpy2py
RGet(op, res) ==
    /\ converter # None
    /\ LET r == R_result(conversion(converter).rpy2py, res)
       IN  econv' = [op |-> op, active |-> converter, arg |-> <<res>>,
                     out |-> r.out, raised |-> r.raised]
    /\ UNCHANGED convvars
    /\ UNCHANGED mapvars
    /\ UNCHANGED <<found, promoted, vec, formula>>

\* The import of the module, then conversions with either converter active.
NextActive ==
    \/ ModuleRegister
    \/ SetConversion
    \/ \E c \in Converters : SetActive(c)
    \/ \E T \in {"list", "TaggedList"}, obj \in PyLists : ConvertList(T, obj)
    \/ \E op \in {"R.__getitem__", "R.__call__"}, res \in RValues : RGet(op, res)

SpecActive == Init /\ [][NextActive]_vars

\* Calls of setenvironment on one Formula.
NextFormula == \E val \in EnvArgs : SetEnvironment(val)

SpecFormula == Init /\ [][NextFormula]_vars

(***************************************************************************)
(* Claims on the scoped override                                           *)
(***************************************************************************)

\* C1: one __enter__ followed by the __exit__ of an override whose body did
\* not touch the resolver leaves the table as it was at entry, whether the
\* body ended normally or raised: an overridden name that existed has its old
\* class back, one that did not exist is absent, any other name is untouched.
C1_ScopeRestoresTable ==
    (last.op = "exit" /\ last.fresh /\ last.quiet) =>
        /\ last.raised = "none"
        /\ nameclassmap = last.entry
        /\ \A k \in Names :
              /\ (k \in DictKeys(ctx.d) /\ contains(last.entry, k))
                    => getitem(nameclassmap, k) = getitem(last.entry, k)
              /\ (k \in DictKeys(ctx.d) /\ ~contains(last.entry, k))
                    => ~contains(nameclassmap, k)
              /\ k \notin DictKeys(ctx.d)
                    => nameclassmap[k] = last.entry[k]

\* An override of an existing name and of a new name was left by an error
\* raised in its body.
C1_Witness ==
    /\ last.op = "exit" /\ last.fresh /\ last.quiet
    /\ last.exc = "Error"
    /\ \E i, j \in 1..Len(ctx.d) :
          /\ contains(last.entry, ctx.d[i][1])
          /\ getitem(last.entry, ctx.d[i][1]) # ctx.d[i][2]
          /\ ~contains(last.entry, ctx.d[j][1])

\* C2: with overrides nested properly on the resolver (distinct instances,
\* exits last-in-first-out), each exit puts the table back to what it was at
\* the matching entry: after an inner exit the classes installed by the
\* enclosing override are in place again, after the outermost exit the table
\* is the original one.
C2_NestedUnwind ==
    (last.op = "exit" /\ last.clean) =>
        /\ last.raised = "none"
        /\ nameclassmap = last.entry
        /\ (active # <<>> /\ active[Len(active)].clean) =>
              \A i \in 1..Len(active[Len(active)].d) :
                  getitem(nameclassmap, active[Len(active)].d[i][1])
                      = active[Len(active)].d[i][2]

\* The outermost of two nested overrides of one registered name, each giving
\* it another class, has exited.
C2_Witness ==
    /\ last.op = "exit" /\ last.clean /\ last.shared
    /\ active = <<>>

\* C9: __exit__ completes without raising, whatever was done to the resolver
\* between the entry and the exit.
C9_ExitNeverRaises ==
    last.op = "exit" => last.raised = "none"

\* C10: __exit__ consumes the saved entries, so that the instance holds none
\* afterwards and each of its successive enter/exit cycles completes and
\* leaves the table as it was before the cycle.
C10_KeepDiscarded ==
    /\ last.op = "exit" => ctx.keep = <<>>
    /\ (last.op = "exit" /\ last.quiet) =>
          (last.raised = "none" /\ nameclassmap = last.entry)

(***************************************************************************)
(* Claims on the resolver                                                  *)
(***************************************************************************)
Present(m, keys) == {i \in 1..Len(keys) : keys[i] \in Names /\ m[keys[i]] # None}

FirstPresent(m, keys) ==
    CHOOSE i \in Present(m, keys) : \A j \in Present(m, keys) : i <= j

\* The table stores the default class under no name, so that a default
\* returned by find can be told from a stored class.
DefaultNotStored(m) == \A k \in Names : m[k] # default

\* C3: find returns the class stored for the first candidate present in the
\* table, and the default when no candidate is present (and only then, on a
\* table that does not store the default class itself); the name it resolves
\* through is the one find_key reports, the first candidate present.
C3_FindFirstPresent ==
    found.called =>
        /\ Present(found.map, found.keys) # {} =>
              /\ found.cls = found.map[found.keys[FirstPresent(found.map, found.keys)]]
              /\ found.key = found.keys[FirstPresent(found.map, found.keys)]
        /\ Present(found.map, found.keys) = {} =>
              /\ found.cls = default
              /\ found.key = None
        /\ DefaultNotStored(found.map) =>
              ((found.cls = default) <=> (Present(found.map, found.keys) = {}))

(***************************************************************************)
(* Claims on the promotion                                                 *)
(***************************************************************************)
\* Vector, matrix and array wrappers of the tags _vector_matrix_array serves.
VMA ==
    [INTSXP |-> <<"IntVector", "IntMatrix", "IntArray">>,
     REALSXP |-> <<"FloatVector", "FloatMatrix", "FloatArray">>,
     LGLSXP |-> <<"BoolVector", "BoolMatrix", "BoolArray">>,
     STRSXP |-> <<"StrVector", "StrMatrix", "StrArray">>,
     CPLXSXP |-> <<"ComplexVector", "ComplexMatrix", "ComplexArray">>,
     RAWSXP |-> <<"ByteVector", "ByteMatrix", "ByteArray">>]

VectorLike == DOMAIN VMA

DimRuleClasses == UNION {{VMA[t][1], VMA[t][2], VMA[t][3]} : t \in VectorLike}

\* A vector-like value that is no table, factor or date, whose dim attribute
\* is absent or has a value.
PlainVectorLike(obj) ==
    /\ obj.typeof \in VectorLike
    /\ "data.frame" \notin obj.rclass
    /\ ~(obj.typeof = "INTSXP" /\ "factor" \in obj.rclass)
    /\ ~(obj.typeof = "REALSXP" /\ "POSIXct" \in obj.rclass)
    /\ obj.dim.slot \in {"absent", "ok"}

\* C4 as stated: dim absent or of length 0 gives the plain vector wrapper,
\* length 2 the matrix wrapper, length 3 or more the array wrapper.
C4_DimensionRule_AsStated ==
    (promoted.called /\ PlainVectorLike(promoted.obj)) =>
        LET dim == promoted.obj.dim
            w == VMA[promoted.obj.typeof]
        IN  /\ (dim.slot = "absent" \/ Len(dim.value) = 0) => promoted.cls = w[1]
            /\ (dim.slot = "ok" /\ Len(dim.value) = 2) => promoted.cls = w[2]
            /\ (dim.slot = "ok" /\ Len(dim.value) >= 3) => promoted.cls = w[3]

\* C4 as amended: dim absent gives the plain vector wrapper, a dim of length
\* 2 the matrix wrapper, a dim of any other length (0 included) the array
\* wrapper.
C4_DimensionRule ==
    (promoted.called /\ PlainVectorLike(promoted.obj)) =>
        LET dim == promoted.obj.dim
            w == VMA[promoted.obj.typeof]
        IN  /\ promoted.raised = "none"
            /\ dim.slot = "absent" => promoted.cls = w[1]
            /\ (dim.slot = "ok" /\ Len(dim.value) = 2) => promoted.cls = w[2]
            /\ (dim.slot = "ok" /\ Len(dim.value) # 2) => promoted.cls = w[3]

\* A raw vector with an empty dim attribute was promoted to an array.
C4_Witness ==
    /\ promoted.called /\ PlainVectorLike(promoted.obj)
    /\ promoted.obj.typeof = "RAWSXP"
    /\ promoted.obj.dim.slot = "ok" /\ Len(promoted.obj.dim.value) = 0
    /\ promoted.cls = "ByteArray"

\* C5: a SexpVector with 'data.frame' among its classes becomes a DataFrame
\* whatever its type, dim and other classes; otherwise an INTSXP with 'factor'
\* among its classes becomes a FactorVector whatever its dim; the dimension
\* rule is used only when neither applies.
C5_Precedence ==
    (promoted.called /\ isSexpVector(promoted.obj)) =>
        /\ "data.frame" \in promoted.obj.rclass => promoted.cls = "DataFrame"
        /\ ("data.frame" \notin promoted.obj.rclass
                /\ promoted.obj.typeof = "INTSXP"
                /\ "factor" \in promoted.obj.rclass)
              => promoted.cls = "FactorVector"
        /\ promoted.cls \in DimRuleClasses =>
              /\ "data.frame" \notin promoted.obj.rclass
              /\ ~(promoted.obj.typeof = "INTSXP" /\ "factor" \in promoted.obj.rclass)

\* An integer factor with dim [2, 2] was promoted to a FactorVector.
C5_Witness ==
    /\ promoted.called
    /\ promoted.obj.typeof = "INTSXP"
    /\ promoted.obj.rclass = {"factor"}
    /\ promoted.obj.dim = [slot |-> "ok", value |-> <<2, 2>>]
    /\ promoted.cls = "FactorVector"
(***************************************************************************)
(* Claims on the conversions                                               *)
(***************************************************************************)
\* The module was imported and no caller has registered anything since.
DefaultRegistry == converter = "default_converter" /\ regs = 0

\* C6: with the registrations of the module applied in source order, a bool,
\* int, float, complex, str or bytes converted with py2rpy and back with
\* rpy2py is equal to the value given.
C6_ScalarRoundTrip ==
    (DefaultRegistry /\ conv.op = "roundtrip" /\ conv.arg.type \in HostScalars) =>
        /\ conv.raised = "none"
        /\ conv.out = conv.arg

\* A bool went through py2rpy and rpy2py of the default registry.
C6_Witness ==
    /\ DefaultRegistry /\ conv.op = "roundtrip"
    /\ conv.arg = Value("bool", "True")
    /\ conv.raised = "none"

\* C7: once every module registration is applied, rpy2py of a value for which
\* no handler more specific than the one for object is registered is done by
\* the handler for object, and it returns an RObject built around the value.
C7_FallbackWraps ==
    (DefaultRegistry /\ conv.op = "rpy2py" /\ conv.at = "object") =>
        /\ conv.raised = "none"
        /\ conv.out = Wrap("RObject", conv.arg)

C11_S4ThroughResolver ==
    (conv.op = "rpy2py" /\ conv.arg.type = "SexpS4") =>
        /\ conv.raised = "none"
        /\ Present(found.map, found.keys) # {} =>
              conv.out = Wrap(found.map[found.keys[FirstPresent(found.map, found.keys)]],
                              conv.arg)
        /\ Present(found.map, found.keys) = {} =>
              conv.out = Wrap(default, conv.arg)

(***************************************************************************)
(* Claims on sequence_to_vector                                            *)
(***************************************************************************)
\* The priority table of the claims: bool < int < float < complex < str, with
\* the vector type of each.
Priority == <<"bool", "int", "float", "complex", "str">>

VectorTypeOf ==
    [bool |-> "BoolVector", int |-> "IntVector", float |-> "FloatVector",
     complex |-> "ComplexVector", str |-> "StrVector"]

Rank(t) == CHOOSE r \in 1..Len(Priority) : Priority[r] = t

InPriority(lst) == \A i \in 1..Len(lst) : \E r \in 1..Len(Priority) : Priority[r] = lst[i]

\* C12: for a non-empty sequence whose element types are all in the priority
\* table, sequence_to_vector builds the vector type of the element type of
\* highest priority present in the sequence, wherever and however often that
\* type and the others occur.
C12_HighestPriorityType ==
    (vec.called /\ vec.lst # <<>> /\ InPriority(vec.lst)) =>
        /\ vec.raised = "none"
        /\ vec.res # NoVector
        /\ \E i \in 1..Len(vec.lst) :
              /\ \A j \in 1..Len(vec.lst) : Rank(vec.lst[j]) <= Rank(vec.lst[i])
              /\ vec.res.cls = VectorTypeOf[vec.lst[i]]
        /\ vec.res.elts = vec.lst

\* [str, bool, int]: the highest type comes first and a StrVector is built.
C12_Witness ==
    /\ vec.called
    /\ vec.lst = <<"str", "bool", "int">>
    /\ vec.raised = "none"
    /\ vec.res.cls = "StrVector"

\* C13: sequence_to_vector raises, and builds no vector, exactly when the
\* sequence is empty or has an element whose type is not in the priority
\* table, wherever that element is and whatever the other elements are.
C13_FailsOnEmptyOrUnknown ==
    vec.called =>
        /\ (vec.raised # "none") <=> (vec.lst = <<>> \/ ~InPriority(vec.lst))
        /\ vec.raised # "none" => vec.res = NoVector
        /\ vec.raised = "none" => vec.res # NoVector

\* A sequence whose last element only has a type outside the table was refused.
C13_Witness ==
    /\ vec.called
    /\ Len(vec.lst) = 3
    /\ InPriority(SubSeq(vec.lst, 1, 2))
    /\ vec.lst[3] = "NoneType"
    /\ vec.raised = "ValueError"
    /\ vec.res = NoVector

(***************************************************************************)
(* Claims on the active converter                                          *)
(***************************************************************************)
\* The conversion of obj by the tables of converter c, as a one-step result.
By(c, dir, obj) ==
    converted(IF dir = "py2rpy" THEN conversion(c).py2rpy ELSE conversion(c).rpy2py, obj)

\* C14: a conversion made after set_conversion(c) uses the tables of c, the
\* converter active when the call is made: this holds of each element
\* converted inside the handlers of list and TaggedList, also when the handler
\* comes from another converter, and of the results of R.__getitem__ and
\* R.__call__.
C14_ActiveAtCallTime ==
    (econv.op # "none" /\ econv.active = converter) =>
        LET dir == IF econv.op \in {"_py2rpy_list", "_py2rpy_taggedlist"}
                   THEN "py2rpy" ELSE "rpy2py"
        IN  IF \A i \in 1..Len(econv.arg) : By(converter, dir, econv.arg[i]).raised = "none"
            THEN /\ econv.raised = "none"
                 /\ Len(econv.out) = Len(econv.arg)
                 /\ \A i \in 1..Len(econv.arg) :
                       econv.out[i] = By(converter, dir, econv.arg[i]).out
            ELSE econv.raised # "none"

\* With the second converter active, the handler of list that it took from
\* default_converter converted an int with the second converter's handler.
C14_Witness ==
    /\ econv.op = "_py2rpy_list"
    /\ econv.active = "other_converter"
    /\ converter = "other_converter"
    /\ econv.arg = <<Value("int", "1")>>
    /\ econv.raised = "none"
    /\ econv.out = <<Wrap("CallerWrapper", Value("int", "1"))>>

(***************************************************************************)
(* Claims on the entry of an override and on the classes stored            *)
(***************************************************************************)
\* Every pair of the mapping is in the table m.
Installed(m, items) == \A i \in 1..Len(items) : m[items[i][1]] = items[i][2]

\* Every class of the mapping derives from the default class.
AllDerive(items) == \A i \in 1..Len(items) : issubclass(items[i][2], default)

\* C15 as stated: __enter__ completes without raising and installs every
\* pair of its mapping, for every table and every mapping of names to classes.
C15_EnterNeverRaises ==
    last.op = "enter" =>
        /\ last.raised = "none"
        /\ Installed(nameclassmap, ctx.d)

\* C15 for the mappings whose classes all derive from the default class of
\* the resolver: __enter__ completes without raising and installs every pair.
C15_EnterInstallsDerived ==
    (last.op = "enter" /\ AllDerive(ctx.d)) =>
        /\ last.raised = "none"
        /\ Installed(nameclassmap, ctx.d)

\* An override of two names, one of them registered with another class, was
\* entered.
C15_Witness ==
    /\ last.op = "enter" /\ last.raised = "none"
    /\ AllDerive(ctx.d)
    /\ Len(ctx.d) = 2
    /\ \E i \in 1..2 : /\ contains(last.entry, ctx.d[i][1])
                       /\ getitem(last.entry, ctx.d[i][1]) # ctx.d[i][2]
    /\ Installed(nameclassmap, ctx.d)

\* C19: when __enter__ raises, the table is the one from before the entry,
\* with no pair of the mapping left installed.
C19_EnterAllOrNothing ==
    (last.op = "enter" /\ last.raised # "none") => nameclassmap = last.entry

\* C20: every class stored in the table derives from (or is) the default
\* class of the resolver, and the default class is the one the resolver was
\* built with, after any registrations, removals, entries and exits.
C20_StoredDeriveFromDefault ==
    /\ default = "RS4"
    /\ \A k \in Names :
          contains(nameclassmap, k) => issubclass(getitem(nameclassmap, k), "RS4")

\* An exit has put back the class a name had before an override gave it
\* another one.
C20_Witness ==
    /\ last.op = "exit" /\ last.raised = "none"
    /\ \E k \in DictKeys(ctx.d) :
          /\ contains(last.entry, k)
          /\ contains(nameclassmap, k)
          /\ getitem(nameclassmap, k) = getitem(last.entry, k)
          /\ \E i \in 1..Len(ctx.d) : ctx.d[i][1] = k /\ ctx.d[i][2] # getitem(last.entry, k)

(***************************************************************************)
(* Claims on the errors of the promotion                                   *)
(***************************************************************************)
\* Tags of the composite payloads: list, pairlist, language.
Composite == {"VECSXP", "LISTSXP", "LANGSXP"}

\* C16 as stated: sexpvector_to_ro of a value whose tag is neither vector-like
\* nor composite raises and builds no wrapper; the value is never returned,
\* wrapped or as it is.
C16_NonVectorRejected_AsStated ==
    (promoted.called /\ promoted.obj.typeof \notin VectorLike \cup Composite) =>
        /\ promoted.raised # "none"
        /\ ~promoted.returned
        /\ promoted.cls = None

\* C16 for the values that are no SexpVector: sexpvector_to_ro raises
\* ValueError and builds no wrapper.  A SexpVector whose tag is none of those
\* the promotion knows, and that is no data.frame, is returned as it is.
C16_NonVectorRejected ==
    promoted.called =>
        /\ ~isSexpVector(promoted.obj) =>
              /\ promoted.raised = "ValueError"
              /\ ~promoted.returned
              /\ promoted.cls = None
        /\ (/\ isSexpVector(promoted.obj)
            /\ promoted.obj.typeof \notin VectorLike \cup Composite
            /\ "data.frame" \notin promoted.obj.rclass) =>
              /\ promoted.raised = "none"
              /\ promoted.returned
              /\ promoted.cls = None

\* A closure was given to sexpvector_to_ro and refused.
C16_Witness ==
    /\ promoted.called
    /\ promoted.obj.typeof = "CLOSXP"
    /\ promoted.raised = "ValueError"
    /\ ~promoted.returned

\* A vector-like value, no table, factor or date, whose dim attribute could
\* not be read for a reason other than its absence.
DimUnreadable(obj) ==
    /\ obj.typeof \in VectorLike
    /\ "data.frame" \notin obj.rclass
    /\ ~(obj.typeof = "INTSXP" /\ "factor" \in obj.rclass)
    /\ ~(obj.typeof = "REALSXP" /\ "POSIXct" \in obj.rclass)
    /\ obj.dim.slot = "error"

\* C18 as stated: a failure to read dim other than its absence is reported to
\* the caller of the promotion.
C18_DimFailureReported ==
    (promoted.called /\ DimUnreadable(promoted.obj)) => promoted.raised # "none"

\* C18 for the code: any failure to read dim, its absence or another one,
\* gives the plain vector wrapper and no error.
C18_DimFailureGivesVector ==
    (promoted.called /\ (DimUnreadable(promoted.obj)
                            \/ (PlainVectorLike(promoted.obj)
                                    /\ promoted.obj.dim.slot = "absent"))) =>
        /\ promoted.raised = "none"
        /\ promoted.returned
        /\ promoted.cls = VMA[promoted.obj.typeof][1]

\* A string vector whose dim could not be read was promoted to a StrVector.
C18_Witness ==
    /\ promoted.called
    /\ DimUnreadable(promoted.obj)
    /\ promoted.obj.typeof = "STRSXP"
    /\ promoted.raised = "none"
    /\ promoted.cls = "StrVector"

(***************************************************************************)
(* Claims on Formula.setenvironment                                        *)
(***************************************************************************)
\* C17: setenvironment with a value that is no SexpEnvironment raises and
\* leaves the .Environment slot as it was; with a SexpEnvironment it assigns
\* the value to the slot; the slot changes in no other way.
C17_SetEnvironmentChecksType ==
    formula.sets > 0 =>
        /\ ~isSexpEnvironment(formula.val) =>
              /\ formula.raised = "TypeError"
              /\ formula.env = formula.before
        /\ isSexpEnvironment(formula.val) =>
              /\ formula.raised = "none"
              /\ formula.env = formula.val
        /\ formula.env # formula.before =>
              (formula.val.type \in {"SexpEnvironment", "Environment"}
                  /\ formula.env = formula.val)

\* After an environment was assigned, a str was refused and the slot kept it.
C17_Witness ==
    /\ formula.sets > 1
    /\ formula.val = Value("str", "globalenv")
    /\ formula.raised = "TypeError"
    /\ formula.env = Value("SexpEnvironment", "baseenv")
    /\ formula.before = formula.env

====
